---------------------------- MODULE Spec2Model ----------------------------
(***************************************************************************)
(* A model of wp-pa11y (src/wp-pa11y.js): the configuration resolver, the  *)
(* sitemap fetcher, the per-sitemap audit runner, the report writer and    *)
(* the file-name generator.                                                *)
(*                                                                         *)
(* A JavaScript string is a sequence of one-character strings, so that     *)
(* trimming, lower-casing, the regular-expression replacements and the     *)
(* string replacements are computed character by character.                *)
(***************************************************************************)
EXTENDS Naturals, Sequences, FiniteSets

VARIABLES
    opts,          \* program.opts(): [given, sitemaps, destination]
    searchedFor,   \* cosmicConfig.search(): the configuration file found, if any
    unhandled,     \* what the runtime does with an unhandled rejection
    proc,          \* the process: "load", "running", "help", "exit0", "typeError", "crashed"
    config,        \* the resolved configuration: [sitemaps, reporter]
    task,          \* one record per callback of config.sitemaps.forEach
    dirs,          \* the directories made, <<root, folderName>>
    files,         \* the files written, [root, folder, name, page]
    today,         \* what new Date() returns
    fnUrl,         \* the argument of the getFileName calls under study
    fnCalls        \* the getFileName calls made: a sequence of [date, name]

vars == <<opts, searchedFor, unhandled, proc, config, task, dirs, files,
          today, fnUrl, fnCalls>>

-----------------------------------------------------------------------------
(* Bounds of the model. *)

MaxUrlLen == 3      \* length of the generated page URLs of SpecName
MaxCalls == 2       \* getFileName calls per URL in SpecName
MaxListLen == 2     \* entries of a sitemap list given to the resolver in SpecCfg
MaxStringLen == 3   \* length of a configuration file that holds one string
MaxPages == 2       \* <url> entries of a sitemap document in Spec

-----------------------------------------------------------------------------
(* Characters and strings. *)

LowerLetters == <<"a", "b", "c", "d", "e", "f", "g", "h", "i", "j", "k", "l", "m",
                  "n", "o", "p", "q", "r", "s", "t", "u", "v", "w", "x", "y", "z">>

UpperLetters == <<"A", "B", "C", "D", "E", "F", "G", "H", "I", "J", "K", "L", "M",
                  "N", "O", "P", "Q", "R", "S", "T", "U", "V", "W", "X", "Y", "Z">>

Digits == <<"0", "1", "2", "3", "4", "5", "6", "7", "8", "9">>

Range(s) == {s[k] : k \in 1..Len(s)}

\* \s of a JavaScript regular expression, and what String.prototype.trim removes.
Whitespace == {" ", "\t", "\n"}

\* \w of a JavaScript regular expression without the u flag: [A-Za-z0-9_].
WordChars == Range(LowerLetters) \cup Range(UpperLetters) \cup Range(Digits) \cup {"_"}

toLowerCaseChar(c) ==
    IF c \in Range(UpperLetters)
    THEN LowerLetters[CHOOSE k \in 1..Len(UpperLetters) : UpperLetters[k] = c]
    ELSE c

\* String.prototype.toLowerCase
toLowerCase(s) == [k \in 1..Len(s) |-> toLowerCaseChar(s[k])]

\* String.prototype.trim
trim(s) ==
    LET idx == {k \in 1..Len(s) : s[k] \notin Whitespace}
    IN  IF idx = {} THEN <<>>
        ELSE SubSeq(s, CHOOSE k \in idx : \A j \in idx : k <= j,
                       CHOOSE k \in idx : \A j \in idx : k >= j)

\* The first index at which pat occurs in s, 0 when it does not occur.
IndexOf(s, pat) ==
    LET at == {k \in 1..(Len(s) + 1) : /\ k + Len(pat) - 1 <= Len(s)
                                       /\ SubSeq(s, k, k + Len(pat) - 1) = pat}
    IN  IF at = {} THEN 0 ELSE CHOOSE k \in at : \A j \in at : k <= j

\* String.prototype.replace with a string pattern: the first occurrence only.
ReplaceFirst(s, pat, rep) ==
    LET k == IndexOf(s, pat)
    IN  IF k = 0 THEN s
        ELSE SubSeq(s, 1, k - 1) \o rep \o SubSeq(s, k + Len(pat), Len(s))

\* .replace( /[^\w\s-]/g, '' )
StripUnsafe(s) == SelectSeq(s, LAMBDA c : c \in WordChars \cup Whitespace \cup {"-"})

\* .replace( /[\s_-]+/g, '-' ): every maximal run of separators becomes one hyphen.
RECURSIVE CollapseFrom(_, _, _)
CollapseFrom(s, seps, inRun) ==
    IF s = <<>> THEN <<>>
    ELSE IF Head(s) \in seps
         THEN (IF inRun THEN <<>> ELSE <<"-">>) \o CollapseFrom(Tail(s), seps, TRUE)
         ELSE <<Head(s)>> \o CollapseFrom(Tail(s), seps, FALSE)

CollapseSeparatorsNoUnderscore(s) == CollapseFrom(s, Whitespace \cup {"-"}, FALSE)

CollapseSeparators(s) == CollapseFrom(s, Whitespace \cup {"_", "-"}, FALSE)

\* .replace( /^-+|-+$/g, '' )
TrimHyphens(s) ==
    LET idx == {k \in 1..Len(s) : s[k] # "-"}
    IN  IF idx = {} THEN <<>>
        ELSE SubSeq(s, CHOOSE k \in idx : \A j \in idx : k <= j,
                       CHOOSE k \in idx : \A j \in idx : k >= j)

\* The decimal digits of a number, as a template literal prints it.
RECURSIVE NumberToString(_)
NumberToString(n) ==
    IF n < 10 THEN <<Digits[n + 1]>>
    ELSE NumberToString(n \div 10) \o <<Digits[(n % 10) + 1]>>

\* The sanitised slug of getFileName, before the date is put in front of it.
Slug(url) ==
    ReplaceFirst(
        TrimHyphens(CollapseSeparators(StripUnsafe(trim(toLowerCase(url))))),
        <<"h", "t", "t", "p", "s", "w", "w", "w">>, <<>>)

HtmlExtension == <<".", "h", "t", "m", "l">>

\* getFileName( url ), with the value dt of new Date() made explicit:
\* dt = [year, month, date], month as Date.getMonth() counts it, from 0.
getFileName(url, dt) ==
    NumberToString(dt.year) \o <<"-">> \o NumberToString(dt.month + 1) \o <<"-">>
        \o NumberToString(dt.date) \o <<"-">> \o Slug(url) \o HtmlExtension

-----------------------------------------------------------------------------
(* The configuration resolver.                                             *)
(*                                                                         *)
(* opts = [given, sitemaps, destination]: given says whether --sitemaps    *)
(* was on the command line (opts.sitemaps is undefined otherwise).         *)
(* searchedFor = [kind, hasSitemaps, sitemaps, hasReporter, reporter,      *)
(* value]: kind "null" when no file was found, "empty" for an empty file,  *)
(* "object" for a file holding an object (its sitemaps and reporter keys   *)
(* present or not), "array" or "string" for a file holding a bare list or  *)
(* a bare string (value).                                                  *)

defaultConfig == [sitemaps |-> <<>>, reporter |-> "html"]

outputDir == "cwd/output"

NoFile == [kind |-> "null", hasSitemaps |-> FALSE, sitemaps |-> <<>>,
           hasReporter |-> FALSE, reporter |-> "html", value |-> <<>>]

\* Array.from( new Set( list ) ): the first occurrence of every value, in order.
RECURSIVE Unique(_)
Unique(list) ==
    IF list = <<>> THEN <<>>
    ELSE LET front == Unique(SubSeq(list, 1, Len(list) - 1))
             last == list[Len(list)]
         IN  IF last \in Range(front) THEN front ELSE Append(front, last)

\* .map( ( a ) => a.toString().trim() ).filter( ( a ) => a.length )
TrimAndFilter(list) ==
    SelectSeq([k \in 1..Len(list) |-> trim(list[k])], LAMBDA a : Len(a) > 0)

NormaliseSetBeforeTrim(list) == TrimAndFilter(Unique(list))

\* Trim and filter empty items, then make sure only unique values are present.
Normalise(list) == Unique(TrimAndFilter(list))

\* const sitemapAmount = typeof opts.sitemaps !== 'undefined' && opts.sitemaps.length || 0
sitemapAmount(o) == IF o.given THEN Len(o.sitemaps) ELSE 0

\* let loadedConfig = { sitemaps: opts.sitemaps || [] }, then the keys of the
\* file's object spread over it: a key the file has replaces the one before.
loadedConfig(o, s) ==
    [sitemaps |-> IF s.kind = "object" /\ s.hasSitemaps THEN s.sitemaps
                  ELSE IF o.given THEN o.sitemaps ELSE <<>>,
     hasReporter |-> s.kind = "object" /\ s.hasReporter,
     reporter |-> s.reporter]

\* The top level of the script up to the forEach: what the process does
\* next ("help", "exit0" or "running") and the configuration it runs with.
ResolveConfig(o, s) ==
    IF sitemapAmount(o) < 1 /\ s.kind = "null"
    THEN [proc |-> "help", sitemaps |-> <<>>, reporter |-> defaultConfig.reporter]
    ELSE LET loaded == loadedConfig(o, s)
             list == Normalise(loaded.sitemaps)
         IN  [proc |-> IF Len(list) = 0 THEN "exit0" ELSE "running",
              sitemaps |-> list,
              reporter |-> IF loaded.hasReporter THEN loaded.reporter
                           ELSE defaultConfig.reporter]

\* String.prototype.split( " " )
RECURSIVE Split(_)
Split(s) ==
    LET k == IndexOf(s, <<" ">>)
    IN  IF k = 0 THEN <<s>>
        ELSE <<SubSeq(s, 1, k - 1)>> \o Split(SubSeq(s, k + 1, Len(s)))

\* The same in the second implementation: the file's value is the sitemap
\* list itself, and the command line's sitemaps are concatenated only under
\* opts.sitemap, a key program.opts() never has.
ResolveConfig2(o, s) ==
    IF s.kind \in {"null", "empty"}
    THEN [proc |-> "help", sitemaps |-> <<>>, reporter |-> "console"]
    ELSE IF s.kind = "object"
    THEN [proc |-> "typeError", sitemaps |-> <<>>, reporter |-> "console"]
    ELSE LET fromFile == IF s.kind = "array" THEN s.value ELSE Split(s.value)
             optsSitemap == FALSE
             merged == IF optsSitemap /\ Len(o.sitemaps) > 0
                       THEN SelectSeq(fromFile \o o.sitemaps, LAMBDA a : Len(a) > 0)
                       ELSE fromFile
             list == Normalise(merged)
         IN  [proc |-> IF Len(list) = 0 THEN "exit0" ELSE "running",
              sitemaps |-> list, reporter |-> "console"]

-----------------------------------------------------------------------------
(* The sitemap tasks: config.sitemaps.forEach, getUrls and runPa11y.       *)

\* The sitemaps and the pages of the runs of Spec.
SitemapA == <<"h", "t", "t", "p", "s", ":", "/", "/", "w", "w", "w", ".", "a", ".", "f", "i", "/", "s", ".", "x", "m", "l">>
SitemapA2 == <<"h", "t", "t", "p", "s", ":", "/", "/", "a", ".", "f", "i", "/", "t", ".", "x", "m", "l">>
SitemapB == <<"h", "t", "t", "p", "s", ":", "/", "/", "b", ".", "f", "i", "/", "s", ".", "x", "m", "l">>

NotAUrl == <<"a", ".", "f", "i">>

PageXY == <<"h", "t", "t", "p", "s", ":", "/", "/", "w", "w", "w", ".", "a", ".", "f", "i", "/", "x", "-", "y">>
PageX_Y == <<"h", "t", "t", "p", "s", ":", "/", "/", "w", "w", "w", ".", "a", ".", "f", "i", "/", "x", "_", "y">>
PageZ == <<"h", "t", "t", "p", "s", ":", "/", "/", "w", "w", "w", ".", "a", ".", "f", "i", "/", "z">>

PageList == <<PageXY, PageX_Y, PageZ>>

\* new URL( url ) throws a TypeError unless url has a scheme.
IsUrl(url) == IndexOf(url, <<":", "/", "/">>) > 1

\* ( new URL( url ) ).hostname, for a URL without port or credentials.
Hostname(url) ==
    LET rest == SubSeq(url, IndexOf(url, <<":", "/", "/">>) + 3, Len(url))
        slash == IndexOf(rest, <<"/">>)
    IN  IF slash = 0 THEN rest ELSE SubSeq(rest, 1, slash - 1)

\* .hostname.replace( 'www.', '' ).replace( '.', '' )
FolderName(url) ==
    ReplaceFirst(ReplaceFirst(Hostname(url), <<"w", "w", "w", ".">>, <<>>), <<".">>, <<>>)

NewTask(url) ==
    [url |-> url, pc |-> "fetching", error |-> "none", folderName |-> <<>>,
     response |-> [fetch |-> "pending", body |-> "none", locs |-> <<>>],
     urlList |-> <<>>, browser |-> "none", pages |-> <<>>, results |-> <<>>,
     auditing |-> {}, reported |-> 0, i |-> 0, closing |-> 0, bar |-> "none",
     stdout |-> <<>>, stderr |-> <<>>]

\* An async function throws: its promise is rejected, and nothing handles it.
Reject(rec, err) == [rec EXCEPT !.pc = "rejected", !.error = err]

\* The callback of forEach up to its first await, for entry k of the list:
\* the directory is made for the html reporter, then getUrls starts the fetch.
\* mkdirThrows says whether mkdirSync throws when it is called.
StartTask(url, reporter, dirsNow, mkdirThrows) ==
    LET started == [NewTask(url) EXCEPT !.stdout = <<"starting">>]
        dir == <<outputDir, FolderName(url)>>
        named == [started EXCEPT !.folderName = FolderName(url)]
    IN  IF ~IsUrl(url) THEN [task |-> Reject(started, "InvalidUrl"), dirs |-> dirsNow]
        ELSE IF dir \notin dirsNow /\ reporter = "html"
        THEN IF mkdirThrows
             THEN [task |-> Reject(named, "mkdir"), dirs |-> dirsNow]
             ELSE [task |-> named, dirs |-> dirsNow \cup {dir}]
        ELSE [task |-> named, dirs |-> dirsNow]

\* config.sitemaps.forEach( async ( url ) => ... ): the callbacks run one
\* after another, each up to its first await.
RECURSIVE ForEach(_, _, _, _)
ForEach(list, reporter, dirsNow, mkdirFails) ==
    IF list = <<>> THEN [tasks |-> <<>>, dirs |-> dirsNow]
    ELSE LET n == Len(list)
             before == ForEach(SubSeq(list, 1, n - 1), reporter, dirsNow, mkdirFails)
             this == StartTask(list[n], reporter, before.dirs, n \in mkdirFails)
         IN  [tasks |-> Append(before.tasks, this.task), dirs |-> this.dirs]

\* The process after a step that may have left a rejected promise unhandled.
AfterRejections(tasks) ==
    IF unhandled = "throw" /\ \E t \in 1..Len(tasks) : tasks[t].pc = "rejected"
    THEN "crashed" ELSE "running"

\* The top level of the script: the configuration is resolved and every
\* sitemap's callback is started.
Main ==
    /\ proc = "load"
    /\ LET r == ResolveConfig(opts, searchedFor)
       IN  /\ config' = [sitemaps |-> r.sitemaps, reporter |-> r.reporter]
           /\ IF r.proc # "running"
              THEN /\ proc' = r.proc
                   /\ UNCHANGED <<task, dirs>>
              ELSE \E mkdirFails \in SUBSET (1..Len(r.sitemaps)) :
                      LET each == ForEach(r.sitemaps, r.reporter, dirs, mkdirFails)
                      IN  /\ task' = each.tasks
                          /\ dirs' = each.dirs
                          /\ proc' = AfterRejections(each.tasks)
    /\ UNCHANGED <<opts, searchedFor, unhandled, files, today, fnUrl, fnCalls>>

-----------------------------------------------------------------------------
(* getUrls.  A response is [fetch, status, body, locs]: fetch "error" when *)
(* the request itself fails; body "malformed" for a body that is not XML,  *)
(* "otherRoot" for XML whose root is not urlset, "urlset" for a urlset     *)
(* with the <loc> texts locs of its <url> children.                        *)

\* The pages of PageList at the indices of I, in the order of PageList.
RECURSIVE SubList(_, _)
SubList(list, I) ==
    IF list = <<>> THEN <<>>
    ELSE LET front == SubList(SubSeq(list, 1, Len(list) - 1), I)
         IN  IF Len(list) \in I THEN Append(front, list[Len(list)]) ELSE front

\* The <loc> lists of the sitemap documents: up to MaxPages different pages.
LocLists ==
    {SubList(PageList, I) : I \in {J \in SUBSET (1..Len(PageList)) : Cardinality(J) <= MaxPages}}

Bodies ==
    {[body |-> "malformed", locs |-> <<>>], [body |-> "otherRoot", locs |-> <<>>]}
        \cup {[body |-> "urlset", locs |-> l] : l \in LocLists}

\* The responses: the request fails, or a response comes with a status and
\* a body.
Responses ==
    {[fetch |-> "error", status |-> 0, body |-> "none", locs |-> <<>>]}
        \cup {[fetch |-> "response", status |-> st, body |-> b.body, locs |-> b.locs] :
                 st \in {200, 500}, b \in Bodies}

\* parser.parseStringPromise( content ): the parser gives an element a key
\* for a child only when the child occurs, so a urlset without <url>
\* children has no url key.
Parse(resp) ==
    [wellFormed |-> resp.body # "malformed",
     hasUrlset |-> resp.body = "urlset",
     hasUrl |-> resp.body = "urlset" /\ Len(resp.locs) > 0,
     url |-> resp.locs]

\* getUrls( url ): what it returns, or the error it throws.  The status of
\* the response is not looked at.
getUrls(resp) ==
    IF resp.fetch = "error" THEN [threw |-> "FetchError", urls |-> <<>>]
    ELSE LET data == Parse(resp)
         IN  IF ~data.wellFormed THEN [threw |-> "ParseError", urls |-> <<>>]
             ELSE IF ~data.hasUrlset THEN [threw |-> "NoUrlset", urls |-> <<>>]
             ELSE IF ~data.hasUrl THEN [threw |-> "NoUrlList", urls |-> <<>>]
             ELSE [threw |-> "none",
                   urls |-> IF Len(data.url) > 0 THEN data.url ELSE <<>>]

\* The callback of forEach after await getUrls( url ): runPa11y is called
\* for a list that is not empty, and runs up to await puppeteer.launch().
\* The task keeps what was received, without the status nothing reads.
GetUrlsDone(t) ==
    /\ proc = "running"
    /\ t \in 1..Len(task)
    /\ task[t].pc = "fetching"
    /\ \E resp \in Responses :
          LET got == getUrls(resp)
              rec == [task[t] EXCEPT !.response = [fetch |-> resp.fetch,
                                                   body |-> resp.body,
                                                   locs |-> resp.locs]]
              new == IF got.threw # "none" THEN Reject(rec, got.threw)
                     ELSE IF Len(got.urls) > 0
                     THEN [rec EXCEPT !.urlList = got.urls, !.pc = "launching",
                                      !.stdout = Append(@, "found")]
                     ELSE [rec EXCEPT !.pc = "done"]
              tasks == [task EXCEPT ![t] = new]
          IN  /\ task' = tasks
              /\ proc' = AfterRejections(tasks)
    /\ UNCHANGED <<opts, searchedFor, unhandled, config, dirs, files, today,
                   fnUrl, fnCalls>>

-----------------------------------------------------------------------------
(* runPa11y.  Every await is a step of its own, and every awaited call     *)
(* either resolves or throws.                                              *)

Outcomes == {"resolves", "throws"}

\* catch ( error ) { console.error( error.message ); bar.stop(); }
Catch(rec, err) ==
    [rec EXCEPT !.pc = "failed", !.error = err, !.auditing = {},
                !.stderr = Append(@, "error"), !.bar = "stopped"]

\* The end of one pass of the for loop: i++, then either the next pass up to
\* await browser.newPage(), or the first await page.close().
NextPage(rec) ==
    IF rec.i < Len(rec.urlList)
    THEN [rec EXCEPT !.i = @ + 1, !.pc = "newPage"]
    ELSE [rec EXCEPT !.i = @ + 1, !.pc = "closePage", !.closing = 1]

Step(t, new) ==
    /\ task' = [task EXCEPT ![t] = new]
    /\ UNCHANGED <<opts, searchedFor, unhandled, proc, config, dirs, today,
                   fnUrl, fnCalls>>

At(t, pc) ==
    /\ proc = "running"
    /\ t \in 1..Len(task)
    /\ task[t].pc = pc

\* const browser = await puppeteer.launch(); bar.start(); the first pass of
\* the loop up to await browser.newPage().
LaunchDone(t) ==
    /\ At(t, "launching")
    /\ \E o \in Outcomes :
          Step(t, IF o = "throws" THEN Catch(task[t], "launch")
                  ELSE [task[t] EXCEPT !.browser = "open", !.bar = "running",
                                       !.i = 1, !.pc = "newPage"])
    /\ UNCHANGED files

\* The pass for page i without the await of pa11y: the audit is started and
\* the pass goes on to the next page at once.
NewPageDoneNoAwait(t) ==
    /\ At(t, "newPage")
    /\ Step(t, NextPage([task[t] EXCEPT
                  !.pages = Append(@, [url |-> task[t].urlList[task[t].i], open |-> TRUE]),
                  !.auditing = @ \cup {task[t].i},
                  !.reported = @ + 1]))
    /\ UNCHANGED files

\* pages.push( await browser.newPage() ), then pa11y is called for page i
\* with the new tab.
NewPageDone(t) ==
    /\ At(t, "newPage")
    /\ \E o \in Outcomes :
          Step(t, IF o = "throws" THEN Catch(task[t], "newPage")
                  ELSE [task[t] EXCEPT
                           !.pages = Append(@, [url |-> task[t].urlList[task[t].i],
                                                open |-> TRUE]),
                           !.auditing = @ \cup {task[t].i},
                           !.pc = "audit"])
    /\ UNCHANGED files

\* results[ i ] = await pa11y( ... ), then the reporter: writeResultsHtml is
\* called for html; otherwise pa11yReporterJson.results( results[ i ] ) is
\* called and what it returns is dropped, and the pass ends.
Pa11yDone(t) ==
    /\ At(t, "audit")
    /\ \E o \in Outcomes :
          LET rec == [task[t] EXCEPT
                         !.auditing = @ \ {task[t].i},
                         !.results = Append(@, [pageUrl |-> task[t].urlList[task[t].i]])]
          IN  Step(t, IF o = "throws" THEN Catch(task[t], "pa11y")
                      ELSE IF config.reporter = "html"
                      THEN [rec EXCEPT !.pc = "report"]
                      ELSE NextPage([rec EXCEPT !.reported = @ + 1]))
    /\ UNCHANGED files

\* path.resolve( outputDir, folderName, fileName ) and writeFileSync: the
\* file is created, or replaced when the path exists.
WriteFile(root, folder, name, page) ==
    {f \in files : ~(f.root = root /\ f.folder = folder /\ f.name = name)}
        \cup {[root |-> root, folder |-> folder, name |-> name, page |-> page]}

ReportFileFirstUrl(rec) == getFileName(rec.urlList[1], today)

\* const fileName = getFileName( urlList[ i ] )
ReportFile(rec) == getFileName(rec.urlList[rec.i], today)

\* writeResultsHtml: await pa11yReporterHtml.results( results[ i ] ), then the
\* file is written and the pass ends.
WriteResultsHtmlDone(t) ==
    /\ At(t, "report")
    /\ \E o \in Outcomes :
          IF o = "throws"
          THEN /\ Step(t, Catch(task[t], "write"))
               /\ UNCHANGED files
          ELSE /\ files' = WriteFile(outputDir, task[t].folderName, ReportFile(task[t]),
                                     task[t].results[task[t].i].pageUrl)
               /\ Step(t, NextPage([task[t] EXCEPT !.reported = @ + 1]))

\* for ( const page of pages ) { await page.close(); }, then bar.stop() and
\* browser.close() is called.
PageCloseDone(t) ==
    /\ At(t, "closePage")
    /\ \E o \in Outcomes :
          LET k == task[t].closing
              rec == [task[t] EXCEPT !.pages[k].open = FALSE]
          IN  Step(t, IF o = "throws" THEN Catch(task[t], "pageClose")
                      ELSE IF k < Len(rec.pages)
                      THEN [rec EXCEPT !.closing = k + 1]
                      ELSE [rec EXCEPT !.closing = k + 1, !.bar = "stopped",
                                       !.pc = "closeBrowser"])
    /\ UNCHANGED files

\* await browser.close()
BrowserCloseDone(t) ==
    /\ At(t, "closeBrowser")
    /\ \E o \in Outcomes :
          Step(t, IF o = "throws" THEN Catch(task[t], "browserClose")
                  ELSE [task[t] EXCEPT !.browser = "closed", !.pc = "done"])
    /\ UNCHANGED files

-----------------------------------------------------------------------------
(* The runs of the program. *)

NoOpts == [given |-> FALSE, sitemaps |-> <<>>, destination |-> outputDir]

FileObject(hasSitemaps, sitemaps, hasReporter, reporter) ==
    [kind |-> "object", hasSitemaps |-> hasSitemaps, sitemaps |-> sitemaps,
     hasReporter |-> hasReporter, reporter |-> reporter, value |-> <<>>]

Today == [year |-> 2026, month |-> 10, date |-> 3]

\* --sitemaps of the runs of Spec: absent, two sitemaps of one host, or a
\* sitemap and an entry that is no URL.
RunSitemaps == {<<>>, <<SitemapA, SitemapA2>>, <<SitemapA, NotAUrl>>}

\* The configuration file of the runs of Spec: none, one that sets the
\* reporter, one that lists a sitemap.
RunFiles ==
    {NoFile, FileObject(FALSE, <<>>, TRUE, "console"),
     FileObject(TRUE, <<SitemapB>>, FALSE, "html")}

Destinations == {outputDir, "/srv/reports"}

Init ==
    /\ opts \in {[given |-> l # <<>>, sitemaps |-> l, destination |-> d] :
                    l \in RunSitemaps, d \in Destinations}
    /\ searchedFor \in RunFiles
    /\ unhandled \in {"throw", "warn"}
    /\ proc = "load"
    /\ config = defaultConfig
    /\ task = <<>>
    /\ dirs = {}
    /\ files = {}
    /\ today = Today
    /\ fnUrl = <<>>
    /\ fnCalls = <<>>

\* The callbacks forEach has started.
Tasks == 1..Len(task)

Next ==
    \/ Main
    \/ \E t \in Tasks :
          \/ GetUrlsDone(t)
          \/ LaunchDone(t)
          \/ NewPageDone(t)
          \/ Pa11yDone(t)
          \/ WriteResultsHtmlDone(t)
          \/ PageCloseDone(t)
          \/ BrowserCloseDone(t)

Spec == Init /\ [][Next]_vars

-----------------------------------------------------------------------------
(* The configuration resolver alone, of both implementations, on sitemap   *)
(* lists with padded, empty and repeated entries.                          *)

CfgEntries == {<<>>, <<" ">>, <<"a">>, <<" ", "a">>, <<"a", " ">>, <<"b">>}

CfgChars == {" ", "a", "\n"}

ListsOver(S, n) == UNION {[1..k -> S] : k \in 0..n}

CfgLists == ListsOver(CfgEntries, MaxListLen)

CfgFiles ==
    {NoFile, [NoFile EXCEPT !.kind = "empty"], FileObject(FALSE, <<>>, TRUE, "console")}
        \cup {FileObject(TRUE, l, FALSE, "html") : l \in CfgLists}
        \cup {[NoFile EXCEPT !.kind = "array", !.value = l] : l \in CfgLists}
        \cup {[NoFile EXCEPT !.kind = "string", !.value = v] :
                 v \in ListsOver(CfgChars, MaxStringLen) \ {<<>>}}

InitCfg ==
    /\ opts \in {[given |-> l # <<>>, sitemaps |-> l, destination |-> outputDir] :
                    l \in CfgLists}
    /\ searchedFor \in CfgFiles
    /\ unhandled = "warn"
    /\ proc = "load"
    /\ config = defaultConfig
    /\ task = <<>>
    /\ dirs = {}
    /\ files = {}
    /\ today = Today
    /\ fnUrl = <<>>
    /\ fnCalls = <<>>

Resolved(r) ==
    /\ proc = "load"
    /\ proc' = r.proc
    /\ config' = [sitemaps |-> r.sitemaps, reporter |-> r.reporter]
    /\ UNCHANGED <<opts, searchedFor, unhandled, task, dirs, files, today, fnUrl, fnCalls>>

LoadConfig == Resolved(ResolveConfig(opts, searchedFor))

LoadConfig2 == Resolved(ResolveConfig2(opts, searchedFor))

NextCfg == LoadConfig \/ LoadConfig2

SpecCfg == InitCfg /\ [][NextCfg]_vars

-----------------------------------------------------------------------------
(* getFileName alone: calls for one URL, while the days pass.              *)

NameChars == {"a", "B", "1", "_", "-", " ", "/"}

PageUpper == <<" ", "H", "T", "T", "P", "S", ":", "/", "/", "W", "W", "W", ".", "A", ".", "f", "i", "/", "X", "_", "y", " ", "z", "?", "q", "=", "1", " ">>

NameUrls == ListsOver(NameChars, MaxUrlLen) \cup {PageXY, PageX_Y, PageZ, PageUpper}

Dates == <<[year |-> 2026, month |-> 0, date |-> 11],
           [year |-> 2026, month |-> 10, date |-> 1],
           [year |-> 2026, month |-> 11, date |-> 31]>>

InitName ==
    /\ fnUrl \in NameUrls
    /\ today \in Range(Dates)
    /\ fnCalls = <<>>
    /\ opts = NoOpts
    /\ searchedFor = NoFile
    /\ unhandled = "warn"
    /\ proc = "running"
    /\ config = defaultConfig
    /\ task = <<>>
    /\ dirs = {}
    /\ files = {}

\* A call getFileName( fnUrl ): new Date() gives today.
GetFileNameCall ==
    /\ Len(fnCalls) < MaxCalls
    /\ fnCalls' = Append(fnCalls, [date |-> today, name |-> getFileName(fnUrl, today)])
    /\ UNCHANGED <<opts, searchedFor, unhandled, proc, config, task, dirs, files,
                   today, fnUrl>>

\* Time passes between two calls.
Tick ==
    /\ \E k \in 1..(Len(Dates) - 1) : today = Dates[k] /\ today' = Dates[k + 1]
    /\ UNCHANGED <<opts, searchedFor, unhandled, proc, config, task, dirs, files,
                   fnUrl, fnCalls>>

NextName == GetFileNameCall \/ Tick

SpecName == InitName /\ [][NextName]_vars

-----------------------------------------------------------------------------
(* The claims. *)

Count(list, x) == Cardinality({k \in 1..Len(list) : list[k] = x})

\* The errors getUrls throws: the fetch fails, the body is not XML, the
\* document has no urlset, the urlset has no url list.
GetUrlsErrors == {"FetchError", "ParseError", "NoUrlset", "NoUrlList"}

\* C1: when fetching or parsing a sitemap fails, the failure is caught at
\* that sitemap's task boundary and logged, and the process is not crashed
\* by it.
C1_SitemapFailureCaught ==
    \A t \in Tasks :
        task[t].error \in GetUrlsErrors =>
            /\ task[t].pc = "failed"
            /\ Len(task[t].stderr) > 0
            /\ proc = "running"

\* C2: when an invocation of runPa11y has ended, normally or because a step
\* of it threw, every tab it opened and the browser it launched are closed.
C2_ResourcesReleased ==
    \A t \in Tasks :
        task[t].pc \in {"done", "failed"} =>
            /\ task[t].browser # "open"
            /\ \A k \in 1..Len(task[t].pages) : ~task[t].pages[k].open

\* C3: when sitemaps are given on the command line and the configuration
\* file lists sitemaps too, the resolved list is the union of both: every
\* sitemap of either source is in the list and gets a task.
C3_SitemapsUnion ==
    (proc \in {"running", "crashed"} /\ opts.given
        /\ searchedFor.kind = "object" /\ searchedFor.hasSitemaps) =>
            \A e \in Range(opts.sitemaps) \cup Range(searchedFor.sitemaps) :
                Len(trim(e)) > 0 =>
                    /\ trim(e) \in Range(config.sitemaps)
                    /\ \E t \in Tasks : task[t].url = trim(e)

\* C4: for a sitemap document whose urlset has an empty or absent url list,
\* getUrls returns an empty sequence without throwing, and runPa11y is not
\* invoked for that sitemap.
C4_EmptyUrlsetGivesEmptyList ==
    \A t \in Tasks :
        (task[t].response.body = "urlset" /\ task[t].response.locs = <<>>) =>
            /\ task[t].pc = "done"
            /\ task[t].error = "none"
            /\ task[t].urlList = <<>>
            /\ task[t].browser = "none"

\* The report files in the directory of task t.
ReportsIn(t) ==
    {f \in files : f.root = outputDir /\ f.folder = task[t].folderName}

\* The names getFileName generates for the pages of task t.
NamesOf(t) == {getFileName(u, today) : u \in Range(task[t].urlList)}

\* C5, as claimed: for a sitemap with N distinct page URLs, reporter html and
\* every audit succeeding, after the task N report files exist in the
\* sitemap's directory, one for each page, none overwritten by another
\* page's report.
C5_OneFilePerUrl ==
    \A t \in Tasks :
        (task[t].pc = "done" /\ config.reporter = "html") =>
            Cardinality({f \in ReportsIn(t) : f.page \in Range(task[t].urlList)})
                = Len(task[t].urlList)

\* C5, amended: after such a task the sitemap's directory holds exactly one
\* report file for every name getFileName generates for the task's pages:
\* as many files as there are different names, which is at most N.
C5_OneFilePerName ==
    \A t \in Tasks :
        (task[t].pc = "done" /\ config.reporter = "html") =>
            /\ Cardinality({f \in ReportsIn(t) : f.name \in NamesOf(t)})
                   = Cardinality(NamesOf(t))
            /\ Cardinality(NamesOf(t)) <= Len(task[t].urlList)
            /\ Len(task) = 1 => ReportsIn(t) = files /\ {f.name : f \in files} = NamesOf(t)

\* C5's case: a finished html task whose two pages generate the same name,
\* so that one file holds the report of the second page.
C5_Witness ==
    \E t \in Tasks :
        /\ task[t].pc = "done"
        /\ config.reporter = "html"
        /\ task[t].urlList = <<PageXY, PageX_Y>>
        /\ Len(task) = 1
        /\ Cardinality(files) = 1

\* C6: with reporter console, one result block is written to standard
\* output for every page audited, and no directory or file is created.
C6_ConsoleEmitsBlocks ==
    config.reporter = "console" =>
        /\ \A t \in Tasks : Count(task[t].stdout, "result") = Len(task[t].results)
        /\ dirs = {}
        /\ files = {}

\* C7: with reporter html, every report is written under the configured
\* --destination, and the sitemap's directory is created under it.
C7_ReportsUnderDestination ==
    /\ \A f \in files : f.root = opts.destination
    /\ \A d \in dirs : d[1] = opts.destination

NoRepeats(list) == \A j, k \in 1..Len(list) : list[j] = list[k] => j = k

\* C8: the list the tasks are started from holds every sitemap at most once,
\* entries compared after trimming, and holds no empty entry.
C8_SitemapsUniqueTrimmed ==
    proc = "running" =>
        /\ NoRepeats([k \in 1..Len(config.sitemaps) |-> trim(config.sitemaps[k])])
        /\ \A k \in 1..Len(config.sitemaps) : Len(trim(config.sitemaps[k])) > 0

\* C8's case: the command line gave two entries that differ only in their
\* padding, and the list holds the sitemap once.
C8_Witness ==
    /\ proc = "running"
    /\ opts.given
    /\ searchedFor.kind = "null"
    /\ Len(opts.sitemaps) = 2
    /\ opts.sitemaps[1] # opts.sitemaps[2]
    /\ trim(opts.sitemaps[1]) = trim(opts.sitemaps[2])
    /\ Len(config.sitemaps) = 1

SlugChars == Range(LowerLetters) \cup Range(Digits) \cup {"-"}

\* C9: for a page URL and a fixed date getFileName returns the same name on
\* every call; the name ends in .html and has no character outside
\* [a-z0-9-] before the extension.
C9_FileNameSafe ==
    \A k \in 1..Len(fnCalls) :
        LET name == fnCalls[k].name
            n == Len(name)
        IN  /\ n >= Len(HtmlExtension)
            /\ SubSeq(name, n - Len(HtmlExtension) + 1, n) = HtmlExtension
            /\ Range(SubSeq(name, 1, n - Len(HtmlExtension))) \subseteq SlugChars
            /\ \A j \in 1..Len(fnCalls) :
                   fnCalls[j].date = fnCalls[k].date => fnCalls[j].name = name

\* C9's case: two calls on one day for a URL with an upper-case letter, an
\* underscore and a slash.
C9_Witness ==
    /\ fnUrl = <<"B", "_", "/">>
    /\ Len(fnCalls) = 2
    /\ fnCalls[1].date = fnCalls[2].date

\* C10: within a task the pages are processed in list order and one at a
\* time: tab i+1 is opened only after page i was audited and its report
\* written, so no two audits of one task are in progress at once.
C10_PagesInOrder ==
    \A t \in Tasks :
        LET rec == task[t]
        IN  /\ Cardinality(rec.auditing) <= 1
            /\ rec.auditing \subseteq {Len(rec.pages)}
            /\ Len(rec.pages) <= rec.reported + 1
            /\ Len(rec.results) <= Len(rec.pages)
            /\ rec.reported <= Len(rec.results)
            /\ \A k \in 1..Len(rec.pages) : rec.pages[k].url = rec.urlList[k]
            /\ \A k \in 1..Len(rec.results) : rec.results[k].pageUrl = rec.urlList[k]

\* C10's case: two tasks audit at the same time, one of them its second
\* page, whose tab was opened after the first page's report.
C10_Witness ==
    \E t, u \in Tasks :
        /\ t # u
        /\ task[t].pc = "audit"
        /\ task[u].pc = "audit"
        /\ task[t].i = 2
        /\ task[t].reported = 1
        /\ task[t].auditing = {2}

=============================================================================
